---------------------------- MODULE Spec2Model ----------------------------
(***************************************************************************)
(* Drought characteristics of one series (one pixel along time) as         *)
(* computed by dmosat/dmosat.py: drought_frequency, drought_duration,      *)
(* drought_event, the threshold mask, and the "[a]+" run extraction.       *)
(*                                                                         *)
(* A series is a sequence of cells; a cell is an integer reading or NaN.   *)
(* An optional argument is <<>> (None) or <<v>> (provided).                *)
(* A result is a record: kind "nan", "num" (the rational num/den),         *)
(* "array" (the input handed back), "error" (an exception) or "unset".     *)
(***************************************************************************)
EXTENDS Integers, Sequences, FiniteSets, TLC

\* ---------------------------------------------------------------- bounds
MaxLen == 4
MaxVal == 1
MaxEvent == 3

\* np.nan, the missing-value marker: a cell outside every reading
NaN == -99

MinVal == 0 - 1
Values == MinVal..MaxVal
Cells == Values \cup {NaN}

\* float +inf as a threshold: above every reading of the model
PosInf == MaxVal + 100

\* [D,D,N,D,D,D,N,M,D] under threshold 0
Scenario == <<0, 0, 1, 0, 0, 0, 1, NaN, 0>>
ScenarioThreshold == <<0>>

Series == (UNION {[1..n -> Cells] : n \in 0..MaxLen}) \cup {Scenario}

None == <<>>
ThresholdArgs == {None} \cup {<<t>> : t \in Values \cup {PosInf}}
EventArgs == {None} \cup {<<e>> : e \in MinVal..MaxEvent}
Ndims == {1, 3}

\* --------------------------------------------------------------- results
Unset == [kind |-> "unset", num |-> 0, den |-> 1, arr |-> <<>>]
NaNResult == [kind |-> "nan", num |-> 0, den |-> 1, arr |-> <<>>]
ErrorResult == [kind |-> "error", num |-> 0, den |-> 1, arr |-> <<>>]
Num(n, d) == [kind |-> "num", num |-> n, den |-> d, arr |-> <<>>]
Arr(a) == [kind |-> "array", num |-> 0, den |-> 1, arr |-> a]

\* ------------------------------------------------------- numpy / xarray
isnan(x) == x = NaN

\* np.isnan(a).all(): true of the empty array
AllNaN(a) == \A i \in 1..Len(a) : isnan(a[i])

\* data <= threshold, elementwise: a comparison with NaN is False
Leq(v, t) == ~isnan(v) /\ v <= t

\* xarray.where(data <= threshold, 1, np.nan)
WhereLeq(data, t) == [i \in 1..Len(data) |-> IF Leq(data[i], t) THEN 1 ELSE NaN]

\* .sum("time"): xarray skips NaN when it sums floats; the empty sum is 0
RECURSIVE NanSum(_)
NanSum(a) ==
    IF Len(a) = 0 THEN 0
    ELSE (IF isnan(Head(a)) THEN 0 ELSE Head(a)) + NanSum(Tail(a))

RECURSIVE Sum(_)
Sum(xs) == IF Len(xs) = 0 THEN 0 ELSE Head(xs) + Sum(Tail(xs))

\* np.nanmean of a list of integers: NaN for the empty list
nanmean(xs) == IF Len(xs) = 0 THEN NaNResult ELSE Num(Sum(xs), Len(xs))

\* ------------------------------------------------ DroughtCharacteristics
_mask_dataStrict(data, threshold) ==
    IF threshold # None
    THEN [i \in 1..Len(data) |->
            IF ~isnan(data[i]) /\ data[i] < threshold[1] THEN 1 ELSE NaN]
    ELSE data

_mask_data(data, threshold) ==
    IF threshold # None THEN WhereLeq(data, threshold[1]) ELSE data

\* shape of the array the series is a slice of: (time,) or (time, y, x)
_size(data, nd) == IF nd < 2 THEN 1 ELSE Len(data)

\* np.where(np.isnan(a), "1", "a") joined into one string
ToText(a) == [i \in 1..Len(a) |-> IF isnan(a[i]) THEN "1" ELSE "a"]

\* the end (exclusive, 0-based) of the greedy match of "[a]+" whose
\* characters up to e are matched already
MatchEndOne(text, e) == e

RECURSIVE MatchEnd(_, _)
MatchEnd(text, e) ==
    IF e < Len(text) /\ text[e + 1] = "a" THEN MatchEnd(text, e + 1) ELSE e

\* re.finditer("[a]+", text) scanning from the 0-based position pos:
\* leftmost, greedy, non-overlapping matches as (start, end) spans
RECURSIVE finditer(_, _)
finditer(text, pos) ==
    IF pos >= Len(text) THEN <<>>
    ELSE IF text[pos + 1] = "a"
         THEN LET e == MatchEnd(text, pos + 1)
              IN  <<[start |-> pos, end |-> e]>> \o finditer(text, e)
         ELSE finditer(text, pos + 1)

\* [(i.end(0)-i.start(0)) for i in re.finditer("[a]+", text)]
RunLengths(ms) == [k \in 1..Len(ms) |-> ms[k].end - ms[k].start]

\* the spans the reducers scan for: none on the early all-NaN return
RunsOf(a) == IF AllNaN(a) THEN <<>> ELSE finditer(ToText(a), 0)

_mean_duration(a) ==
    IF AllNaN(a) THEN NaNResult
    ELSE nanmean(RunLengths(finditer(ToText(a), 0)))

drought_frequencyTruthy(data, threshold, nd) ==
    IF threshold # None /\ threshold # <<0>>
    THEN LET mask_sum == NanSum(_mask_data(data, None))
             size == _size(data, nd)
         IN  IF size = 0 \/ mask_sum <= 0 THEN NaNResult
             ELSE Num(mask_sum * 100, size)
    ELSE Arr(data)

\* mask = self._mask_data(data): the threshold is not handed on
drought_frequency(data, threshold, nd) ==
    IF threshold # None
    THEN LET mask == _mask_data(data, None)
             mask_sum == NanSum(mask)
             size == _size(data, nd)
         IN  \* 0/0 is NaN, and NaN <= 0 is False: NaN stays
             IF size = 0 THEN NaNResult
             \* xarray.where(dc <= 0, np.nan, dc)
             ELSE IF mask_sum * 100 <= 0 THEN NaNResult
             ELSE Num(mask_sum * 100, size)
    ELSE Arr(data)

drought_duration(data, threshold) ==
    IF threshold # None
    THEN _mean_duration(_mask_data(data, threshold))
    ELSE Arr(data)

\* ---------------------------------------------------------- drought_event
DefaultEvent == 3

_total_eventNoNaNCheck(a, ev) ==
    LET count == SelectSeq(RunLengths(finditer(ToText(a), 0)), LAMBDA i : i >= ev)
    IN  IF Len(count) > 0 THEN Num(Len(count), 1) ELSE Num(0, 1)

_total_eventStrict(a, ev) ==
    IF AllNaN(a) THEN NaNResult
    ELSE LET count == SelectSeq(RunLengths(finditer(ToText(a), 0)), LAMBDA i : i > ev)
         IN  IF Len(count) > 0 THEN Num(Len(count), 1) ELSE Num(0, 1)

_total_event(a, ev) ==
    IF AllNaN(a) THEN NaNResult
    ELSE LET count == SelectSeq(RunLengths(finditer(ToText(a), 0)), LAMBDA i : i >= ev)
         IN  IF Len(count) > 0 THEN Num(Len(count), 1) ELSE Num(0, 1)

drought_event(a, ev) ==
    _total_event(a, IF ev = None THEN DefaultEvent ELSE ev[1])

\* ------------------------------------------------- utils.TimeDimension
\* utils.py imports only DataArray from xarray, so the name xarray in
\* xarray.where(...) is unbound: the call raises NameError on every input
threshold_mask(data, threshold) == ErrorResult

\* ------------------------------------------------------------------ state
VARIABLES
    data,       \* the series the caller holds
    threshold,  \* the threshold argument of the last call
    event,      \* the event argument of the last call
    ndim,       \* the number of dimensions of the array the series is cut from
    indicator,  \* the masked series, once a mask has been computed
    matches,    \* the spans re.finditer returned in the last reducer
    result,     \* what the last call returned
    pc          \* which call has been made

vars == <<data, threshold, event, ndim, indicator, matches, result, pc>>

Init ==
    /\ data \in Series
    /\ threshold = None
    /\ event = None
    /\ ndim = 1
    /\ indicator = <<>>
    /\ matches = <<>>
    /\ result = Unset
    /\ pc = "ready"

DroughtFrequency ==
    /\ pc = "ready"
    /\ \E t \in ThresholdArgs, nd \in Ndims :
          /\ threshold' = t
          /\ ndim' = nd
          /\ result' = drought_frequency(data, t, nd)
    /\ pc' = "frequency"
    /\ UNCHANGED <<data, event, indicator, matches>>

DroughtDuration ==
    /\ pc = "ready"
    /\ \E t \in ThresholdArgs :
          /\ threshold' = t
          /\ result' = drought_duration(data, t)
          /\ indicator' = IF t # None THEN _mask_data(data, t) ELSE <<>>
          /\ matches' = IF t # None THEN RunsOf(_mask_data(data, t)) ELSE <<>>
    /\ pc' = "duration"
    /\ UNCHANGED <<data, event, ndim>>

\* the caller builds the binary series drought_event takes
MaskData ==
    /\ pc = "ready"
    /\ \E t \in ThresholdArgs \ {None} :
          /\ threshold' = t
          /\ indicator' = _mask_data(data, t)
    /\ pc' = "masked"
    /\ UNCHANGED <<data, event, ndim, matches, result>>

DroughtEvent ==
    /\ pc = "masked"
    /\ \E e \in EventArgs :
          /\ event' = e
          /\ result' = drought_event(indicator, e)
    /\ matches' = RunsOf(indicator)
    /\ pc' = "event"
    /\ UNCHANGED <<data, threshold, ndim, indicator>>

ThresholdMask ==
    /\ pc = "ready"
    /\ \E t \in ThresholdArgs \ {None} :
          /\ threshold' = t
          /\ result' = threshold_mask(data, t)
    /\ pc' = "threshold_mask"
    /\ UNCHANGED <<data, event, ndim, indicator, matches>>

Next ==
    \/ DroughtFrequency
    \/ DroughtDuration
    \/ MaskData
    \/ DroughtEvent
    \/ ThresholdMask

Spec == Init /\ [][Next]_vars

\* ------------------------------------------------ what the claims speak of
\* the DROUGHT positions of a series under a provided threshold: the
\* positions holding a reading that is <= threshold
DroughtPos(s, t) == {i \in 1..Len(s) : s[i] # NaN /\ s[i] <= t[1]}

MissingPos(s) == {i \in 1..Len(s) : s[i] = NaN}

\* the maximal runs of consecutive positions of D within 1..n, as <<first, last>>
MaximalRuns(D, n) ==
    {r \in (1..n) \X (1..n) :
        /\ r[1] <= r[2]
        /\ \A i \in r[1]..r[2] : i \in D
        /\ (r[1] - 1) \notin D
        /\ (r[2] + 1) \notin D}

RunLength(r) == r[2] - r[1] + 1

RECURSIVE TotalLength(_)
TotalLength(R) ==
    IF R = {} THEN 0
    ELSE LET r == CHOOSE x \in R : TRUE IN RunLength(r) + TotalLength(R \ {r})

EventLength == IF event = None THEN 3 ELSE event[1]

Events(D, n) == {r \in MaximalRuns(D, n) : RunLength(r) >= EventLength}

\* the positions (1-based) a span of re.finditer covers
Covered(ms) == UNION {(ms[k].start + 1)..ms[k].end : k \in 1..Len(ms)}

Computed == threshold # None

\* C1: with at least one drought position, drought_frequency returns
\* (number of drought positions) / (series length) * 100, a value in (0, 100]
C1_FrequencyIsDroughtShare ==
    (pc = "frequency" /\ Computed /\ DroughtPos(data, threshold) # {}) =>
        /\ result.kind = "num"
        /\ result.num * Len(data)
              = Cardinality(DroughtPos(data, threshold)) * 100 * result.den
        /\ 0 < result.num
        /\ result.num <= 100 * result.den

\* C2: with no drought position, drought_frequency returns NaN
C2_NoDroughtFrequencyIsNaN ==
    (pc = "frequency" /\ Computed /\ DroughtPos(data, threshold) = {}) =>
        result = NaNResult

\* C3: with at least one drought position, drought_duration returns the mean
\* length of the maximal runs of drought positions (a non-drought and a
\* missing position both end a run); the scenario series gives runs 2, 3, 1
\* and the mean 2
C3_DurationIsMeanRunLength ==
    (pc = "duration" /\ Computed /\ DroughtPos(data, threshold) # {}) =>
        LET R == MaximalRuns(DroughtPos(data, threshold), Len(data))
        IN  /\ result.kind = "num"
            /\ result.den > 0
            /\ result.num * Cardinality(R) = TotalLength(R) * result.den
            /\ (data = Scenario /\ threshold = ScenarioThreshold) =>
                  /\ RunLengths(matches) = <<2, 3, 1>>
                  /\ result.num = 2 * result.den

C3_Witness ==
    /\ pc = "duration"
    /\ data = Scenario
    /\ threshold = ScenarioThreshold
    /\ result.kind = "num"

C5_ObservedNoDrought ==
    (/\ Len(data) > 0
     /\ MissingPos(data) = {}
     /\ Computed
     /\ DroughtPos(data, threshold) = {}) =>
        /\ pc = "event" => result = Num(0, 1)
        /\ pc = "frequency" => result = NaNResult
        /\ pc = "duration" => result = NaNResult

\* C6: for a series all of whose positions are missing, the empty series
\* included, frequency, mean duration and event count are NaN (no number,
\* no exception)
C6_AllMissingIsNaN ==
    (/\ pc \in {"frequency", "duration", "event"}
     /\ Computed
     /\ MissingPos(data) = 1..Len(data)) =>
        result = NaNResult

C6_Witness ==
    /\ pc = "event"
    /\ Len(data) = 0
    /\ result = NaNResult

\* C7: without a threshold drought_frequency and drought_duration mask
\* nothing, reduce nothing and return the input array; every provided
\* threshold, 0 and negative ones included, starts the computation
C7_NoThresholdPassthrough ==
    pc \in {"frequency", "duration"} =>
        IF threshold = None
        THEN result = Arr(data) /\ indicator = <<>> /\ matches = <<>>
        ELSE result.kind \in {"num", "nan"}

C7_Witness ==
    /\ pc = "frequency"
    /\ threshold = None
    /\ Len(data) > 0
    /\ result = Arr(data)

\* C8: a non-finite threshold given to drought_frequency or drought_duration,
\* and a negative event length given to drought_event, raise
C8_MalformedParametersRaise ==
    /\ (pc \in {"frequency", "duration"} /\ threshold = <<PosInf>>) =>
          result.kind = "error"
    /\ (pc = "event" /\ event # None /\ EventLength < 0) =>
          result.kind = "error"

\* C9: the mask gives a series of the same length in which a position is
\* DROUGHT iff its value is <= threshold and missing exactly where the source
\* is missing; the mask of utils returns such a series as well
C9_MaskKeepsMissingExactly ==
    /\ pc = "masked" =>
          /\ Len(indicator) = Len(data)
          /\ \A i \in 1..Len(data) :
                /\ indicator[i] = 1 <=> i \in DroughtPos(data, threshold)
                /\ indicator[i] = NaN <=> i \in MissingPos(data)
    /\ pc = "threshold_mask" => result.kind # "error"

\* C10: the runs the "[a]+" scan finds have length >= 1, are pairwise
\* disjoint and non-adjacent, are maximal, cover exactly the drought
\* positions, so their lengths sum to the number of drought positions, and an
\* all-drought series of length n gives one run of length n
C10_RunsPartitionDrought ==
    ((pc = "duration" /\ Computed) \/ pc = "event") =>
        LET D == DroughtPos(data, threshold)
            n == Len(data)
        IN  /\ \A k \in 1..Len(matches) :
                  /\ 0 <= matches[k].start
                  /\ matches[k].start < matches[k].end
                  /\ matches[k].end <= n
                  /\ <<matches[k].start + 1, matches[k].end>> \in MaximalRuns(D, n)
            /\ \A k \in 1..(Len(matches) - 1) :
                  matches[k].end < matches[k + 1].start
            /\ Covered(matches) = D
            /\ Sum(RunLengths(matches)) = Cardinality(D)
            /\ (n > 0 /\ D = 1..n) => matches = <<[start |-> 0, end |-> n]>>

C10_Witness ==
    /\ pc = "event"
    /\ Len(matches) = 2
    /\ MissingPos(data) = {}

=============================================================================
